---- MODULE Spec2Model ----
(***************************************************************************)
(* Model of the I2C RTC sniffer analyser (src/main.py).                    *)
(*                                                                         *)
(* A Python str is a sequence of one-character strings, so that strip,     *)
(* split, indexing from the end and int() are computed as the code         *)
(* computes them.  A dict is a function whose DOMAIN is its key set; a     *)
(* lookup of a key outside the DOMAIN is Python's KeyError.                *)
(***************************************************************************)
EXTENDS Integers, Sequences, FiniteSets, TLC

VARIABLES
    mode,                  \* "file" (args.filename) or "serial" (args.port)
    output,                \* args.output is not None
    raw,                   \* args.raw_filename is not None
    pc,                    \* position of the program
    nread,                 \* lines taken from the file / readline calls made
    line,                  \* the line of the current iteration
    data,                  \* the record parse_record returned for it
    records,
    datetime_errors,
    halttime_errors,
    dt_last,
    datetime_invalid,
    datetime_out_sequence,
    json_file,             \* content of the file args.output
    raw_file,              \* content of the file args.raw_filename
    console                \* what was printed

vars == <<mode, output, raw, pc, nread, line, data, records, datetime_errors,
          halttime_errors, dt_last, datetime_invalid, datetime_out_sequence,
          json_file, raw_file, console>>

----------------------------------------------------------------------------
(* Strings                                                                 *)

\* str.strip() removes these from both ends
Whitespace == {" ", "\t", "\n", "\r"}

RECURSIVE lstrip(_)
lstrip(s) ==
    IF s # <<>> /\ Head(s) \in Whitespace THEN lstrip(Tail(s)) ELSE s

RECURSIVE rstrip(_)
rstrip(s) ==
    IF s # <<>> /\ s[Len(s)] \in Whitespace
    THEN rstrip(SubSeq(s, 1, Len(s) - 1))
    ELSE s

strip(s) == rstrip(lstrip(s))

\* str.split(sep) for a one-character separator: empty fields are kept and
\* the result always has at least one field
RECURSIVE split(_, _)
split(s, sep) ==
    IF \A i \in 1..Len(s) : s[i] # sep
    THEN <<s>>
    ELSE LET k == CHOOSE i \in 1..Len(s) :
                      s[i] = sep /\ \A j \in 1..(i - 1) : s[j] # sep
         IN  <<SubSeq(s, 1, k - 1)>> \o split(SubSeq(s, k + 1, Len(s)), sep)

DecDigit == [c \in {"0", "1", "2", "3", "4", "5", "6", "7", "8", "9"} |->
               CASE c = "0" -> 0 [] c = "1" -> 1 [] c = "2" -> 2 [] c = "3" -> 3
                 [] c = "4" -> 4 [] c = "5" -> 5 [] c = "6" -> 6 [] c = "7" -> 7
                 [] c = "8" -> 8 [] c = "9" -> 9]

HexDigit == [c \in DOMAIN DecDigit \cup {"A", "B", "C", "D", "E", "F",
                                         "b", "c", "d", "e", "f"} |->
               CASE c \in DOMAIN DecDigit -> DecDigit[c]
                 [] c \in {"A"}      -> 10
                 [] c \in {"B", "b"} -> 11
                 [] c \in {"C", "c"} -> 12
                 [] c \in {"D", "d"} -> 13
                 [] c \in {"E", "e"} -> 14
                 [] c \in {"F", "f"} -> 15]

RECURSIVE digits_value(_, _, _)
digits_value(s, digit, base) ==
    IF s = <<>> THEN 0
    ELSE digits_value(SubSeq(s, 1, Len(s) - 1), digit, base) * base
         + digit[s[Len(s)]]

\* int(s, base) of Python for base 10 and 16: surrounding whitespace is
\* dropped, one sign is allowed, base 16 allows a 0x prefix, and at least one
\* digit must follow.  ok = FALSE stands for the ValueError.  (Digit-group
\* underscores are outside the alphabet of the lines generated below.)
int(s, base) ==
    LET t      == strip(s)
        signed == t # <<>> /\ Head(t) \in {"+", "-"}
        u      == IF signed THEN Tail(t) ELSE t
        pref   == base = 16 /\ Len(u) >= 2 /\ u[1] = "0" /\ u[2] \in {"x", "X"}
        d      == IF pref THEN SubSeq(u, 3, Len(u)) ELSE u
        digit  == IF base = 16 THEN HexDigit ELSE DecDigit
    IN  IF d = <<>> \/ \E i \in 1..Len(d) : d[i] \notin DOMAIN digit
        THEN [ok |-> FALSE, val |-> 0]
        ELSE [ok  |-> TRUE,
              val |-> IF signed /\ Head(t) = "-"
                      THEN 0 - digits_value(d, digit, base)
                      ELSE digits_value(d, digit, base)]

----------------------------------------------------------------------------
(* Field access and frame decoding                                         *)

\* get_val counting the tokens from one
get_val_one_based(registers, index) ==
    IF index \in 1..Len(registers) THEN registers[index] ELSE <<".">>

\* registers[index] with Python's 0-based index; "." when out of range
get_val(registers, index) ==
    IF index + 1 \in 1..Len(registers) THEN registers[index + 1] ELSE <<".">>

\* is_nack_stop looking at the STOP only
is_nack_stop_p(register, index) ==
    LET val == get_val(register, index)
    IN  Len(val) >= 1 /\ val[Len(val)] = "p"

\* val[-2] == 'n' and val[-1] == 'p'; an IndexError gives False
is_nack_stop(register, index) ==
    LET val == get_val(register, index)
    IN  Len(val) >= 2 /\ val[Len(val) - 1] = "n" /\ val[Len(val)] = "p"

\* int(field.split("n")[0], 16), 0xFF on any failure
get_alarm_register(field) ==
    LET v == int(split(field, "n")[1], 16)
    IN  IF v.ok THEN v.val ELSE 255

\* sD0 taking the read address for the device
sD0_read == <<"s", "D", "1">>

sD0 == <<"s", "D", "0">>
sD1 == <<"s", "D", "1">>
w00 == <<"0", "0">>
w0C == <<"0", "C">>

\* `not get_alarm_register(...) and 0x40`: Python's `not` binds tighter than
\* `and`, and 0x40 is truthy, so the test is "the register is zero"
halt_test(val) == (val = 0) /\ (64 # 0)

\* field_index with the day read from the day-of-week byte
field_index_dow ==
    [year |-> 10, month |-> 9, day |-> 7, hour |-> 6, minute |-> 5,
     seconds |-> 4, tenths |-> 3]

\* the token each date/time field is read from (0-based)
field_index ==
    [year |-> 10, month |-> 9, day |-> 8, hour |-> 6, minute |-> 5,
     seconds |-> 4, tenths |-> 3]

\* has_tokens asking for a second token
has_tokens_two(ack) == Len(ack) > 1

\* `elif len(ack) > 0`
has_tokens(ack) == Len(ack) > 0

\* json_data = {}
empty_dict == <<>>

parse_record(l) ==
    LET ln  == strip(l)
        ack == split(ln, "a")
    IN  IF ln = <<>> THEN [status |-> "empty"]
        ELSE IF get_val(ack, 0) = sD0 THEN
            IF get_val(ack, 1) = w00 THEN
                IF get_val(ack, 2) = sD1 THEN
                    [slave   |-> "D0",
                     word    |-> "00",
                     year    |-> get_val(ack, field_index.year),
                     month   |-> get_val(ack, field_index.month),
                     day     |-> get_val(ack, field_index.day),
                     hour    |-> get_val(ack, field_index.hour),
                     minute  |-> get_val(ack, field_index.minute),
                     seconds |-> get_val(ack, field_index.seconds),
                     tenths  |-> get_val(ack, field_index.tenths),
                     status  |-> IF is_nack_stop(ack, 11)
                                 THEN "ok" ELSE "nack-stop"]
                ELSE [slave |-> "D0", word |-> "00", status |-> "not-read"]
            ELSE IF get_val(ack, 1) = w0C THEN
                IF get_val(ack, 2) = sD1 THEN
                    [slave  |-> "D0",
                     word   |-> "0C",
                     status |-> IF halt_test(get_alarm_register(get_val(ack, 3)))
                                THEN "halt"
                                ELSE IF is_nack_stop(ack, 3)
                                     THEN "ok" ELSE "nack-stop"]
                ELSE [slave |-> "D0", word |-> "0C", status |-> "not-read"]
            ELSE [slave |-> "D0", status |-> "word unknow"]
        ELSE IF has_tokens(ack) THEN [status |-> "device unknow"]
        ELSE empty_dict

----------------------------------------------------------------------------
(* Calendar                                                                *)

is_leap(y) == y % 4 = 0 /\ (y % 100 # 0 \/ y % 400 = 0)

days_in_month(y, m) ==
    IF m = 2 THEN (IF is_leap(y) THEN 29 ELSE 28)
    ELSE IF m \in {4, 6, 9, 11} THEN 30 ELSE 31

\* datetime(year, month, day, hour, minute, second): the value as the tuple
\* of its components, or the ValueError of a component out of range.  (The
\* numeric tokens of the generated lines have at most three digits, far
\* inside the range of the C int the constructor takes.)
datetime(year, month, day, hour, minute, second) ==
    IF /\ year \in 1..9999
       /\ month \in 1..12
       /\ day \in 1..days_in_month(year, month)
       /\ hour \in 0..23
       /\ minute \in 0..59
       /\ second \in 0..59
    THEN [exc |-> "none", dt |-> <<year, month, day, hour, minute, second>>]
    ELSE [exc |-> "ValueError", dt |-> <<>>]

\* datetime.min
datetime_min == <<1, 1, 1, 0, 0, 0>>

\* a < b on datetimes: the order of the component tuples
dt_less(a, b) ==
    \E i \in 1..6 : a[i] < b[i] /\ \A j \in 1..(i - 1) : a[j] = b[j]

\* int(val), -1 on any failure
dt_to_int(val) ==
    LET v == int(val, 10)
    IN  IF v.ok THEN v.val ELSE 0 - 1

----------------------------------------------------------------------------
(* The accumulators.  st is the global state a function reads; the result  *)
(* holds the globals it assigns and exc, the exception it ends with.       *)

\* out_of_sequence with the comparison turned round
out_of_sequence_later(dt, last) == dt_less(last, dt)

\* out_of_sequence flagging an equal timestamp too
out_of_sequence_or_equal(dt, last) == ~dt_less(last, dt)

\* the sequence test of check_datetime: `dt < dt_last`
out_of_sequence(dt, last) == dt_less(dt, last)

\* check_datetime logging a rejected candidate as out of sequence
check_datetime_wrong_log(year, month, day, hour, minute, seconds, st) ==
    LET str_log == <<st.records, year, month, day, hour, minute, seconds>>
        r       == datetime(2000 + year, month, day, hour, minute, seconds)
    IN  IF r.exc = "none" THEN
            [exc                   |-> "none",
             dt_last               |-> r.dt,
             datetime_invalid      |-> st.datetime_invalid,
             datetime_out_sequence |->
                 IF out_of_sequence(r.dt, st.dt_last)
                 THEN Append(st.datetime_out_sequence, str_log)
                 ELSE st.datetime_out_sequence]
        ELSE IF r.exc = "ValueError" THEN
            [exc                   |-> "none",
             dt_last               |-> st.dt_last,
             datetime_invalid      |-> st.datetime_invalid,
             datetime_out_sequence |->
                 Append(st.datetime_out_sequence, str_log)]
        ELSE
            [exc                   |-> r.exc,
             dt_last               |-> st.dt_last,
             datetime_invalid      |-> st.datetime_invalid,
             datetime_out_sequence |-> st.datetime_out_sequence]

check_datetime(year, month, day, hour, minute, seconds, st) ==
    LET str_log == <<st.records, year, month, day, hour, minute, seconds>>
        r       == datetime(2000 + year, month, day, hour, minute, seconds)
    IN  IF r.exc = "none" THEN
            [exc                   |-> "none",
             dt_last               |-> r.dt,
             datetime_invalid      |-> st.datetime_invalid,
             datetime_out_sequence |->
                 IF out_of_sequence(r.dt, st.dt_last)
                 THEN Append(st.datetime_out_sequence, str_log)
                 ELSE st.datetime_out_sequence]
        ELSE IF r.exc = "ValueError" THEN
            [exc                   |-> "none",
             dt_last               |-> st.dt_last,
             datetime_invalid      |-> Append(st.datetime_invalid, str_log),
             datetime_out_sequence |-> st.datetime_out_sequence]
        ELSE
            [exc                   |-> r.exc,
             dt_last               |-> st.dt_last,
             datetime_invalid      |-> st.datetime_invalid,
             datetime_out_sequence |-> st.datetime_out_sequence]

\* data[key]
has_key(d, key) == key \in DOMAIN d

\* update_error_counter with the two error logs exchanged
update_error_counter_swapped(d, l, st) ==
    LET logged  == d.status \notin {"empty", "ok", "device unknow"}
        str_log == <<st.records, strip(l), d.status>>
        dated   == d.status = "ok" /\ d.word = "00"
        chk     == IF dated
                   THEN check_datetime(dt_to_int(d.year), dt_to_int(d.month),
                                       dt_to_int(d.day), dt_to_int(d.hour),
                                       dt_to_int(d.minute),
                                       dt_to_int(d.seconds), st)
                   ELSE [exc                   |-> "none",
                         dt_last               |-> st.dt_last,
                         datetime_invalid      |-> st.datetime_invalid,
                         datetime_out_sequence |-> st.datetime_out_sequence]
    IN  IF logged /\ ~has_key(d, "word") THEN
            [st EXCEPT !.exc = "KeyError"]
        ELSE
            [exc                   |-> chk.exc,
             records               |-> IF chk.exc = "none"
                                       THEN st.records + 1 ELSE st.records,
             datetime_errors       |->
                 IF logged /\ d.word = "0C"
                 THEN Append(st.datetime_errors, str_log)
                 ELSE st.datetime_errors,
             halttime_errors       |->
                 IF logged /\ d.word = "00"
                 THEN Append(st.halttime_errors, str_log)
                 ELSE st.halttime_errors,
             dt_last               |-> chk.dt_last,
             datetime_invalid      |-> chk.datetime_invalid,
             datetime_out_sequence |-> chk.datetime_out_sequence]

\* update_error_counter counting only the records it does not log
update_error_counter_valid_only(d, l, st) ==
    LET logged  == d.status \notin {"empty", "ok", "device unknow"}
        str_log == <<st.records, strip(l), d.status>>
        dated   == d.status = "ok" /\ d.word = "00"
        chk     == IF dated
                   THEN check_datetime(dt_to_int(d.year), dt_to_int(d.month),
                                       dt_to_int(d.day), dt_to_int(d.hour),
                                       dt_to_int(d.minute),
                                       dt_to_int(d.seconds), st)
                   ELSE [exc                   |-> "none",
                         dt_last               |-> st.dt_last,
                         datetime_invalid      |-> st.datetime_invalid,
                         datetime_out_sequence |-> st.datetime_out_sequence]
    IN  IF logged /\ ~has_key(d, "word") THEN
            [st EXCEPT !.exc = "KeyError"]
        ELSE
            [exc                   |-> chk.exc,
             records               |-> IF chk.exc = "none" /\ ~logged
                                       THEN st.records + 1 ELSE st.records,
             datetime_errors       |->
                 IF logged /\ d.word = "00"
                 THEN Append(st.datetime_errors, str_log)
                 ELSE st.datetime_errors,
             halttime_errors       |->
                 IF logged /\ d.word = "0C"
                 THEN Append(st.halttime_errors, str_log)
                 ELSE st.halttime_errors,
             dt_last               |-> chk.dt_last,
             datetime_invalid      |-> chk.datetime_invalid,
             datetime_out_sequence |-> chk.datetime_out_sequence]

update_error_counter(d, l, st) ==
    LET logged  == d.status \notin {"empty", "ok", "device unknow"}
        str_log == <<st.records, strip(l), d.status>>
        dated   == d.status = "ok" /\ d.word = "00"
        chk     == IF dated
                   THEN check_datetime(dt_to_int(d.year), dt_to_int(d.month),
                                       dt_to_int(d.day), dt_to_int(d.hour),
                                       dt_to_int(d.minute),
                                       dt_to_int(d.seconds), st)
                   ELSE [exc                   |-> "none",
                         dt_last               |-> st.dt_last,
                         datetime_invalid      |-> st.datetime_invalid,
                         datetime_out_sequence |-> st.datetime_out_sequence]
    IN  IF logged /\ ~has_key(d, "word") THEN
            [st EXCEPT !.exc = "KeyError"]
        ELSE
            [exc                   |-> chk.exc,
             records               |-> IF chk.exc = "none"
                                       THEN st.records + 1 ELSE st.records,
             datetime_errors       |->
                 IF logged /\ d.word = "00"
                 THEN Append(st.datetime_errors, str_log)
                 ELSE st.datetime_errors,
             halttime_errors       |->
                 IF logged /\ d.word = "0C"
                 THEN Append(st.halttime_errors, str_log)
                 ELSE st.halttime_errors,
             dt_last               |-> chk.dt_last,
             datetime_invalid      |-> chk.datetime_invalid,
             datetime_out_sequence |-> chk.datetime_out_sequence]

\* one print() call: what is printed and which print it is
Printed(kind, text) == [kind |-> kind, text |-> text]

\* what show_record prints (<<>> for nothing), or the exception
show_record(d, l) ==
    IF d.status \in {"empty", "device unknow"} THEN
        [exc |-> "none", out |-> <<>>]
    ELSE IF ~has_key(d, "word") THEN
        [exc |-> "KeyError", out |-> <<>>]
    ELSE IF d.word = "00" THEN
        IF d.status # "ok"
        THEN [exc |-> "none",
              out |-> <<Printed("frame", <<strip(l), d.status>>)>>]
        ELSE [exc |-> "none",
              out |-> <<Printed("datetime",
                                <<d.hour, d.minute, d.seconds, d.tenths,
                                  d.day, d.month, d.year, d.status>>)>>]
    ELSE IF d.word = "0C" THEN
        IF d.status # "ok"
        THEN [exc |-> "none",
              out |-> <<Printed("frame", <<strip(l), d.status>>)>>]
        ELSE [exc |-> "none", out |-> <<>>]
    ELSE [exc |-> "none", out |-> <<Printed("line", <<strip(l)>>)>>]

\* save_json leaving out blank lines only
save_json_empty_only(file_name, d) ==
    IF d.status = "empty" THEN
        [exc |-> "none", out |-> <<>>]
    ELSE IF ~has_key(d, "word") THEN
        [exc |-> "KeyError", out |-> <<>>]
    ELSE IF d.word = "0C" /\ d.status = "ok" THEN
        [exc |-> "none", out |-> <<>>]
    ELSE IF file_name THEN
        [exc |-> "none", out |-> <<d>>]
    ELSE [exc |-> "none", out |-> <<>>]

\* the objects save_json appends to the file (<<>> for none), or the exception
save_json(file_name, d) ==
    IF d.status = "empty" \/ d.status = "device unknow" THEN
        [exc |-> "none", out |-> <<>>]
    ELSE IF ~has_key(d, "word") THEN
        [exc |-> "KeyError", out |-> <<>>]
    ELSE IF d.word = "0C" /\ d.status = "ok" THEN
        [exc |-> "none", out |-> <<>>]
    ELSE IF file_name THEN
        [exc |-> "none", out |-> <<d>>]
    ELSE [exc |-> "none", out |-> <<>>]

\* the lines save_raw appends to the file
save_raw(filename, l) ==
    IF filename /\ strip(l) # <<>> THEN <<strip(l) \o <<"\r">>>> ELSE <<>>

RunState ==
    [exc                   |-> "none",
     records               |-> records,
     datetime_errors       |-> datetime_errors,
     halttime_errors       |-> halttime_errors,
     dt_last               |-> dt_last,
     datetime_invalid      |-> datetime_invalid,
     datetime_out_sequence |-> datetime_out_sequence]

----------------------------------------------------------------------------
(* Input lines                                                             *)

DigitChar == <<"0", "1", "2", "3", "4", "5", "6", "7", "8", "9">>

\* the two-digit token of a number below 100
D2(n) == <<DigitChar[(n \div 10) + 1], DigitChar[(n % 10) + 1]>>

np == <<"n", "p">>
LF == <<"\n">>

\* tokens joined by the separator 'a'
RECURSIVE Join(_)
Join(toks) ==
    IF Len(toks) = 0 THEN <<>>
    ELSE IF Len(toks) = 1 THEN toks[1]
    ELSE toks[1] \o <<"a">> \o Join(Tail(toks))

\* a date/time frame as the sniffer sends it: sD0 00 sD1 tenths seconds minute
\* hour day-of-week day month year control, NAK and STOP
DateTokens(tenths, seconds, minute, hour, dow, day, month, year) ==
    <<sD0, w00, sD1, tenths, seconds, minute, hour, dow, day, month, year,
      D2(80) \o np>>

DateLine(tenths, seconds, minute, hour, day, month, year) ==
    Join(DateTokens(D2(tenths), D2(seconds), D2(minute), D2(hour), D2(3),
                    D2(day), D2(month), D2(year))) \o LF

AlarmLine(reg) == Join(<<sD0, w0C, sD1, reg>>) \o LF

\* The lines of a capture: one of every status, the alarm register with and
\* without bit 6, and date/time frames that are later, earlier, equal,
\* out of the calendar and not numeric.
FileLines ==
    { LF,                                               \* blank
      Join(<<sD1, w00>>) \o LF,                         \* another device
      Join(<<sD0, <<"0", "D">>, sD1, D2(11) \o np>>) \o LF, \* another word
      Join(<<sD0, w00>>) \o LF,                         \* no read phase
      Join(<<sD0, w00, sD1, D2(55), D2(6)>>) \o LF,     \* truncated
      Join(<<sD0, w0C>>) \o LF,
      AlarmLine(D2(11)),                                \* no NAK/STOP
      AlarmLine(D2(11) \o np),
      AlarmLine(D2(40) \o np),                          \* bit 6 set
      AlarmLine(D2(0) \o np),                           \* register zero
      DateLine(55, 6, 30, 16, 1, 6, 21),
      DateLine(80, 6, 30, 16, 1, 6, 21),                \* same second
      DateLine(55, 6, 29, 16, 1, 6, 21),                \* a minute earlier
      DateLine(55, 6, 30, 16, 1, 13, 21),               \* month 13
      DateLine(55, 6, 30, 16, 29, 2, 21),               \* 29 Feb 2021
      Join(DateTokens(D2(55), <<"z", "z">>, D2(30), D2(16), D2(3), D2(1),
                      D2(6), D2(21))) \o LF,            \* seconds not a number
      Join(DateTokens(D2(55), D2(6), D2(30), D2(16), D2(3), D2(1),
                      D2(6), <<"z", "z">>)) \o LF }     \* year not a number

\* every prefix of a line: a frame cut at any position
Prefixes(l) == { SubSeq(l, 1, k) : k \in 0..Len(l) }

Tok0 == { sD0, sD1, <<>>, <<"s", "D">>, <<" ", "s", "D", "0">> }
Tok1 == { w00, w0C, <<"0", "D">>, <<"0">>, <<"0", "0", "0">> }
Tok2 == { sD1, sD0, <<>> }

\* the alarm register token
Tok3 ==
    { D2(11) \o np, D2(40) \o np, D2(0) \o np, D2(80) \o np,
      <<"7", "F">> \o np, <<"C", "0">> \o np, <<"F", "F">> \o np,
      <<"1", "4", "0">> \o np, <<"0", "x", "4", "0">> \o np,
      <<"-", "0">> \o np, <<" ", "4", "0">> \o np, <<"z", "z">> \o np,
      D2(40), D2(0), D2(11), np, <<"n">>, <<"0">> \o np,
      D2(40) \o <<"p", "n">>, D2(40) \o <<"n">>, D2(11) \o <<"n", "n", "p">> }

\* the token in the position of the NAK/STOP marker of a date/time frame
Tok11 ==
    { D2(80) \o np, D2(80), np, <<"p">>, <<"n">>, <<>>, D2(80) \o <<"n">>,
      D2(80) \o <<"p", "n">>, D2(80) \o np \o <<"x">>, <<"n", "n", "p">> }

\* the tokens after the read address, for a date/time frame
DateTails ==
    { <<D2(55), D2(6), D2(30), D2(16), dow, D2(1), D2(6), year, t11>> \o more :
        dow \in {D2(3), D2(7)}, year \in {D2(21), <<"z", "z">>},
        t11 \in Tok11, more \in {<<>>, <<D2(80) \o np>>} }

Tails == { <<t3>> : t3 \in Tok3 } \cup DateTails

\* white space around a whole line: <<before, after>>
Padding == { <<<<>>, <<>>>>, <<<<>>, LF>>, <<<<>>, <<"\r", "\n">>>>,
             <<<<" ">>, <<" ", "\n">>>> }

\* the frame of the tokens t0, t1, t2 and tail, cut after k characters when
\* k is inside it and padded when it is whole
ParseLine(t0, t1, t2, tail, k, pad) ==
    LET whole == Join(<<t0, t1, t2>> \o tail)
    IN  IF k < Len(whole) THEN SubSeq(whole, 1, k)
        ELSE pad[1] \o whole \o pad[2]

----------------------------------------------------------------------------
(* The program                                                             *)

\* lines read in one run
MaxLines == 3

\* data before the first parse_record
NoData == [status |-> "unset"]

\* the report at the end of parse_raw_file: the four itemized logs and the
\* counts
Summary ==
    <<Printed("datetime_errors", datetime_errors),
      Printed("halttime_errors", halttime_errors),
      Printed("datetime_invalid", datetime_invalid),
      Printed("datetime_out_sequence", datetime_out_sequence),
      Printed("summary", <<records, Len(datetime_errors), Len(halttime_errors),
                           Len(datetime_invalid),
                           Len(datetime_out_sequence)>>)>>

Traceback(exc) == <<Printed("traceback", exc)>>

Globals ==
    /\ records = 0
    /\ datetime_errors = <<>>
    /\ halttime_errors = <<>>
    /\ dt_last = datetime_min
    /\ datetime_invalid = <<>>
    /\ datetime_out_sequence = <<>>

Init ==
    /\ mode \in {"file", "serial"}
    /\ output \in BOOLEAN
    /\ raw \in BOOLEAN
    /\ pc = "main"
    /\ nread = 0
    /\ line = <<>>
    /\ data = NoData
    /\ Globals
    /\ json_file = <<>>
    /\ raw_file = <<>>
    /\ console = <<>>

SetRunState(st) ==
    /\ records' = st.records
    /\ datetime_errors' = st.datetime_errors
    /\ halttime_errors' = st.halttime_errors
    /\ dt_last' = st.dt_last
    /\ datetime_invalid' = st.datetime_invalid
    /\ datetime_out_sequence' = st.datetime_out_sequence

\* open(filename) succeeds and readlines() returns the lines
FileOpen ==
    /\ pc = "main" /\ mode = "file"
    /\ pc' = "loop"
    /\ UNCHANGED <<mode, output, raw, nread, line, data, records,
                   datetime_errors, halttime_errors, dt_last, datetime_invalid,
                   datetime_out_sequence, json_file, raw_file, console>>

\* open(filename) raises FileNotFoundError: the report follows at once
FileNotFound ==
    /\ pc = "main" /\ mode = "file"
    /\ console' = console \o <<Printed("error", "error file not found")>>
                          \o Summary
    /\ pc' = "done"
    /\ UNCHANGED <<mode, output, raw, nread, line, data, records,
                   datetime_errors, halttime_errors, dt_last, datetime_invalid,
                   datetime_out_sequence, json_file, raw_file>>

\* `for line in lines` takes the next line
FileNext(l) ==
    /\ pc = "loop" /\ mode = "file" /\ nread < MaxLines
    /\ nread' = nread + 1
    /\ line' = l
    /\ pc' = "body"
    /\ UNCHANGED <<mode, output, raw, data, records, datetime_errors,
                   halttime_errors, dt_last, datetime_invalid,
                   datetime_out_sequence, json_file, raw_file, console>>

\* the body of the loop of parse_raw_file: parse_record, show_record,
\* save_json, update_error_counter; an exception ends the program
FileBody ==
    /\ pc = "body" /\ mode = "file"
    /\ \E d \in {parse_record(line)} :
       LET sh == show_record(d, line)
           sj == save_json(output, d)
           up == update_error_counter(d, line, RunState)
       IN  /\ data' = d
           /\ IF sh.exc # "none" THEN
                  /\ console' = console \o Traceback(sh.exc)
                  /\ pc' = "crashed"
                  /\ UNCHANGED <<json_file, records, datetime_errors,
                                 halttime_errors, dt_last, datetime_invalid,
                                 datetime_out_sequence>>
              ELSE IF sj.exc # "none" THEN
                  /\ console' = console \o sh.out \o Traceback(sj.exc)
                  /\ pc' = "crashed"
                  /\ UNCHANGED <<json_file, records, datetime_errors,
                                 halttime_errors, dt_last, datetime_invalid,
                                 datetime_out_sequence>>
              ELSE
                  /\ json_file' = json_file \o sj.out
                  /\ SetRunState(up)
                  /\ IF up.exc # "none"
                     THEN /\ console' = console \o sh.out \o Traceback(up.exc)
                          /\ pc' = "crashed"
                     ELSE /\ console' = console \o sh.out
                          /\ pc' = "loop"
    /\ UNCHANGED <<mode, output, raw, nread, line, raw_file>>

\* the lines are exhausted: the report is printed
FileEnd ==
    /\ pc = "loop" /\ mode = "file"
    /\ console' = console \o Summary
    /\ pc' = "done"
    /\ UNCHANGED <<mode, output, raw, nread, line, data, records,
                   datetime_errors, halttime_errors, dt_last, datetime_invalid,
                   datetime_out_sequence, json_file, raw_file>>

\* serial.Serial(...) raises: device stays None and the function returns
SerialOpenFail ==
    /\ pc = "main" /\ mode = "serial"
    /\ console' = console
                  \o <<Printed("error", "error can't open the serial port")>>
    /\ pc' = "done"
    /\ UNCHANGED <<mode, output, raw, nread, line, data, records,
                   datetime_errors, halttime_errors, dt_last, datetime_invalid,
                   datetime_out_sequence, json_file, raw_file>>

SerialOpen ==
    /\ pc = "main" /\ mode = "serial"
    /\ pc' = "loop"
    /\ UNCHANGED <<mode, output, raw, nread, line, data, records,
                   datetime_errors, halttime_errors, dt_last, datetime_invalid,
                   datetime_out_sequence, json_file, raw_file, console>>

\* readline() returns a line, which decodes
SerialRead(l) ==
    /\ pc = "loop" /\ mode = "serial" /\ nread < MaxLines
    /\ nread' = nread + 1
    /\ line' = l
    /\ pc' = "body"
    /\ UNCHANGED <<mode, output, raw, data, records, datetime_errors,
                   halttime_errors, dt_last, datetime_invalid,
                   datetime_out_sequence, json_file, raw_file, console>>

\* the rest of the iteration of parse_serial_com: parse_record, save_json,
\* save_raw, show_record; only serial.SerialException is caught
SerialBody ==
    /\ pc = "body" /\ mode = "serial"
    /\ \E d \in {parse_record(line)} :
       LET sj == save_json(output, d)
           sr == save_raw(raw, line)
           sh == show_record(d, line)
       IN  /\ data' = d
           /\ IF sj.exc # "none" THEN
                  /\ console' = console \o Traceback(sj.exc)
                  /\ pc' = "crashed"
                  /\ UNCHANGED <<json_file, raw_file>>
              ELSE
                  /\ json_file' = json_file \o sj.out
                  /\ raw_file' = raw_file \o sr
                  /\ IF sh.exc # "none"
                     THEN /\ console' = console \o Traceback(sh.exc)
                          /\ pc' = "crashed"
                     ELSE /\ console' = console \o sh.out
                          /\ pc' = "loop"
    /\ UNCHANGED <<mode, output, raw, nread, line, records, datetime_errors,
                   halttime_errors, dt_last, datetime_invalid,
                   datetime_out_sequence>>

\* readline() times out and returns b"": `if line` is false
SerialTimeout ==
    /\ pc = "loop" /\ mode = "serial" /\ nread < MaxLines
    /\ nread' = nread + 1
    /\ line' = <<>>
    /\ UNCHANGED <<mode, output, raw, pc, data, records,
                   datetime_errors, halttime_errors, dt_last, datetime_invalid,
                   datetime_out_sequence, json_file, raw_file, console>>

\* readline() raises serial.SerialException: printed, and the loop goes on
SerialError ==
    /\ pc = "loop" /\ mode = "serial" /\ nread < MaxLines
    /\ nread' = nread + 1
    /\ console' = console \o <<Printed("error", "error reading serial port")>>
    /\ UNCHANGED <<mode, output, raw, pc, line, data, records,
                   datetime_errors, halttime_errors, dt_last, datetime_invalid,
                   datetime_out_sequence, json_file, raw_file>>

\* bytes that are not UTF-8
BadBytes == <<"\\xff">>

\* readline() returns bytes that are not UTF-8: line.decode raises
\* UnicodeDecodeError, which the loop does not catch
SerialUndecodable ==
    /\ pc = "loop" /\ mode = "serial" /\ nread < MaxLines
    /\ nread' = nread + 1
    /\ line' = BadBytes
    /\ console' = console \o Traceback("UnicodeDecodeError")
    /\ pc' = "crashed"
    /\ UNCHANGED <<mode, output, raw, data, records,
                   datetime_errors, halttime_errors, dt_last, datetime_invalid,
                   datetime_out_sequence, json_file, raw_file>>

parse_raw_file ==
    \/ FileOpen
    \/ FileNotFound
    \/ \E l \in FileLines : FileNext(l)
    \/ FileBody
    \/ FileEnd

parse_serial_com ==
    \/ SerialOpen
    \/ SerialOpenFail
    \/ \E l \in FileLines : SerialRead(l)
    \/ SerialBody
    \/ SerialTimeout
    \/ SerialError
    \/ SerialUndecodable

Next == parse_raw_file \/ parse_serial_com

Spec == Init /\ [][Next]_vars

----------------------------------------------------------------------------
(* parse_record alone, applied to one line                                 *)

InitParse ==
    /\ mode = "file"
    /\ output = FALSE
    /\ raw = FALSE
    /\ pc = "call"
    /\ nread = 0
    /\ \E t0 \in Tok0, t1 \in Tok1, t2 \in Tok2, tail \in Tails :
          \E k \in 0..Len(Join(<<t0, t1, t2>> \o tail)), pad \in Padding :
              /\ k < Len(Join(<<t0, t1, t2>> \o tail)) => pad = <<<<>>, <<>>>>
              /\ line = ParseLine(t0, t1, t2, tail, k, pad)
    /\ data = NoData
    /\ Globals
    /\ json_file = <<>>
    /\ raw_file = <<>>
    /\ console = <<>>

ParseCall ==
    /\ pc = "call"
    /\ data' = parse_record(line)
    /\ pc' = "return"
    /\ UNCHANGED <<mode, output, raw, nread, line, records, datetime_errors,
                   halttime_errors, dt_last, datetime_invalid,
                   datetime_out_sequence, json_file, raw_file, console>>

NextParse == ParseCall

SpecParse == InitParse /\ [][NextParse]_vars

----------------------------------------------------------------------------
(* Properties                                                              *)

\* the tokens of a line
Frame(l) == split(strip(l), "a")

EndsWithNP(t) == Len(t) >= 2 /\ SubSeq(t, Len(t) - 1, Len(t)) = np

\* the first three tokens of a read of the register word
ReadOf(T, word) ==
    Len(T) >= 3 /\ T[1] = sD0 /\ T[2] = word /\ T[3] = sD1

\* the alarm register of a token, as [ok, val]
RegisterOf(t) == int(split(t, "n")[1], 16)

Bit6(v) == (v \div 64) % 2 = 1

IsDateOk(d) == d.status = "ok" /\ has_key(d, "word") /\ d.word = "00"

DateFields == {"year", "month", "day", "hour", "minute", "seconds"}

\* the timestamp check_datetime builds from a date/time record
Candidate(d) ==
    datetime(2000 + dt_to_int(d.year), dt_to_int(d.month), dt_to_int(d.day),
             dt_to_int(d.hour), dt_to_int(d.minute), dt_to_int(d.seconds))

\* s is t with exactly one entry appended
OneAppended(s, t) == Len(s) = Len(t) + 1 /\ SubSeq(s, 1, Len(t)) = t

\* the step in which update_error_counter handles a record
Accumulates == pc = "body" /\ mode = "file"

\* C1: a date/time frame sD0 00 sD1 ... whose token 11 ends in "np" decodes
\* to status ok, slave D0, word 00 and the fields tenths, seconds, minute,
\* hour, day, month, year taken from tokens 3, 4, 5, 6, 8, 9, 10; token 7
\* reaches no field.
C1_DateFrameDecodes ==
    pc = "return" =>
        \A T \in {split(line, "a"), Frame(line)} :
            (ReadOf(T, w00) /\ Len(T) >= 12 /\ EndsWithNP(T[12])) =>
                data = [slave   |-> "D0",
                        word    |-> "00",
                        status  |-> "ok",
                        tenths  |-> T[4],
                        seconds |-> T[5],
                        minute  |-> T[6],
                        hour    |-> T[7],
                        day     |-> T[9],
                        month   |-> T[10],
                        year    |-> T[11]]

\* a whole date/time frame was decoded whose day-of-week byte (07) differs
\* from every field
C1_Witness ==
    /\ pc = "return"
    /\ ReadOf(Frame(line), w00)
    /\ Len(Frame(line)) >= 12
    /\ EndsWithNP(Frame(line)[12])
    /\ Frame(line)[8] = D2(7)
    /\ data.status = "ok"
    /\ data.day = D2(1)

\* C2: an alarm frame sD0 0C sD1 whose register byte has bit 6 (0x40) set
\* decodes to status halt.
C2_HaltBitGivesHalt ==
    pc = "return" =>
        LET T == Frame(line)
        IN  (ReadOf(T, w0C) /\ Len(T) >= 4 /\ RegisterOf(T[4]).ok
             /\ RegisterOf(T[4]).val \in 0..255
             /\ Bit6(RegisterOf(T[4]).val))
            => data.status = "halt"

\* C3: an alarm frame sD0 0C sD1 whose register byte has bit 6 clear and whose
\* token 3 ends in "np" decodes to status ok with slave, word and status only.
C3_NoHaltBitGivesOk ==
    pc = "return" =>
        LET T == Frame(line)
        IN  (ReadOf(T, w0C) /\ Len(T) >= 4 /\ RegisterOf(T[4]).ok
             /\ RegisterOf(T[4]).val \in 0..255
             /\ ~Bit6(RegisterOf(T[4]).val)
             /\ EndsWithNP(T[4]))
            => data = [slave |-> "D0", word |-> "0C", status |-> "ok"]

\* C4: when a calendar-valid timestamp t is accepted, dt_last becomes t; one
\* entry is appended to datetime_out_sequence if t is earlier than dt_last,
\* none if t is later, and none for any t while dt_last is still the minimum.
C4_SequenceTracker ==
    [][(Accumulates /\ IsDateOk(data') /\ Candidate(data').exc = "none") =>
          LET t == Candidate(data').dt
          IN  /\ dt_last' = t
              /\ dt_less(t, dt_last) =>
                     OneAppended(datetime_out_sequence', datetime_out_sequence)
              /\ dt_less(dt_last, t) =>
                     datetime_out_sequence' = datetime_out_sequence
              /\ dt_last = datetime_min =>
                     datetime_out_sequence' = datetime_out_sequence]_vars

\* the second record, a minute earlier than the first, was logged and became
\* dt_last
C4_Witness ==
    /\ mode = "file"
    /\ records = 2
    /\ dt_last = <<2021, 6, 1, 16, 29, 6>>
    /\ Len(datetime_out_sequence) = 1
    /\ datetime_out_sequence[1] = <<1, 21, 6, 1, 16, 29, 6>>

C6_SentinelIsRejected ==
    [][(Accumulates /\ IsDateOk(data')
        /\ \E f \in DateFields : ~int(data'[f], 10).ok) =>
          /\ OneAppended(datetime_invalid', datetime_invalid)
          /\ dt_last' = dt_last]_vars

\* C7: after the batch has taken N lines, records = N.
C7_RecordsCountsLines ==
    (mode = "file" /\ pc \in {"loop", "done", "crashed"}) => records = nread

\* C8: a word-unknown frame passes through the batch: it is counted, goes to
\* neither error log, and the loop goes on.
C8_WordUnknownPasses ==
    [][(Accumulates /\ data'.status = "word unknow") =>
          /\ pc' = "loop"
          /\ records' = records + 1
          /\ datetime_errors' = datetime_errors
          /\ halttime_errors' = halttime_errors]_vars

\* the statuses of a record
Statuses ==
    {"empty", "device unknow", "word unknow", "not-read", "nack-stop", "halt",
     "ok"}

Suppressed(d) ==
    \/ d.status \in {"empty", "device unknow"}
    \/ has_key(d, "word") /\ d.word = "0C" /\ d.status = "ok"

\* C10: with an output file, save_json appends nothing for a suppressed
\* record and exactly the record for every other one.  (The batch calls
\* save_json only when show_record has returned; the serial loop calls it
\* first.)
C10_SaveJsonPersists ==
    [][(pc = "body" /\ output
        /\ (mode = "serial" \/ show_record(data', line).exc = "none")) =>
          json_file' = json_file \o (IF Suppressed(data') THEN <<>>
                                     ELSE <<data'>>)]_vars

\* C11: a line that is not blank and whose first token is not "sD0" decodes
\* to status device-unknown, whatever follows, and the record holds the
\* status only: no slave, no word, no date/time field.
C11_OtherDeviceUnknown ==
    pc = "return" =>
        LET T == Frame(line)
        IN  (strip(line) # <<>> /\ T[1] # <<"s", "D", "0">>) =>
                data = [status |-> "device unknow"]

\* a frame addressed to sD1 that goes on with a word, a read address and a
\* NAK/STOP token was decoded
C11_Witness ==
    /\ pc = "return"
    /\ Len(Frame(line)) >= 4
    /\ Frame(line)[1] = <<"s", "D", "1">>
    /\ Frame(line)[2] = w00
    /\ Frame(line)[3] = sD1
    /\ EndsWithNP(Frame(line)[Len(Frame(line))])
    /\ data.status = "device unknow"

\* C12: a frame sD0 00 or sD0 0C whose token 2 is missing or is not "sD1"
\* decodes to status not-read with the word set and no date/time field,
\* whatever tokens follow.
C12_NoReadPhaseNotRead ==
    pc = "return" =>
        LET T == Frame(line)
        IN  \A word \in {"00", "0C"} :
                (/\ Len(T) >= 2
                 /\ T[1] = sD0
                 /\ T[2] = (IF word = "00" THEN w00 ELSE w0C)
                 /\ (Len(T) >= 3 => T[3] # sD1)) =>
                    data = [slave |-> "D0", word |-> word,
                            status |-> "not-read"]

\* an alarm frame without the read address, followed by a register token
\* that ends in NAK/STOP, was decoded
C12_Witness ==
    /\ pc = "return"
    /\ Len(Frame(line)) >= 4
    /\ Frame(line)[1] = sD0
    /\ Frame(line)[2] = w0C
    /\ Frame(line)[3] # sD1
    /\ EndsWithNP(Frame(line)[4])
    /\ data.status = "not-read"

\* the token of a date/time field in the frame T, "." beyond its end
FieldToken(T, i) == IF i + 1 <= Len(T) THEN T[i + 1] ELSE <<".">>

\* C14: a date/time frame sD0 00 sD1 has status ok exactly when token 11
\* exists, has two characters or more and ends in "np", and nack-stop
\* otherwise; every field holds its token, or "." when the frame ends before
\* it.
C14_TruncatedDateFrame ==
    pc = "return" =>
        LET T == Frame(line)
        IN  ReadOf(T, w00) =>
                data = [slave   |-> "D0",
                        word    |-> "00",
                        status  |-> IF Len(T) >= 12 /\ Len(T[12]) >= 2
                                       /\ T[12][Len(T[12]) - 1] = "n"
                                       /\ T[12][Len(T[12])] = "p"
                                    THEN "ok" ELSE "nack-stop",
                        tenths  |-> FieldToken(T, 3),
                        seconds |-> FieldToken(T, 4),
                        minute  |-> FieldToken(T, 5),
                        hour    |-> FieldToken(T, 6),
                        day     |-> FieldToken(T, 8),
                        month   |-> FieldToken(T, 9),
                        year    |-> FieldToken(T, 10)]

\* a date/time frame cut after the day was decoded: the fields up to the day
\* hold their tokens, month and year the sentinel
C14_Witness ==
    /\ pc = "return"
    /\ ReadOf(Frame(line), w00)
    /\ Len(Frame(line)) = 9
    /\ data.day = Frame(line)[9]
    /\ data.day # <<".">>
    /\ data.month = <<".">>
    /\ data.year = <<".">>
    /\ data.status = "nack-stop"

\* the calendar, for the statement of C15
LeapYear(y) == (y % 4 = 0 /\ y % 100 # 0) \/ y % 400 = 0

MonthLength(y, m) ==
    CASE m \in {1, 3, 5, 7, 8, 10, 12} -> 31
      [] m \in {4, 6, 9, 11}           -> 30
      [] m = 2                         -> IF LeapYear(y) THEN 29 ELSE 28

\* the six numbers update_error_counter passes to check_datetime
Numbers(d) ==
    [year   |-> dt_to_int(d.year),   month   |-> dt_to_int(d.month),
     day    |-> dt_to_int(d.day),    hour    |-> dt_to_int(d.hour),
     minute |-> dt_to_int(d.minute), seconds |-> dt_to_int(d.seconds)]

OutOfCalendar(n) ==
    \/ n.month \notin 1..12
    \/ n.month \in 1..12 /\ n.day \notin 1..MonthLength(2000 + n.year, n.month)
    \/ n.hour \notin 0..23
    \/ n.minute \notin 0..59
    \/ n.seconds \notin 0..59

\* C15: a candidate with a component outside its calendar range appends one
\* entry with the running record index to datetime_invalid and leaves dt_last
\* and datetime_out_sequence as they were.
C15_RejectedLeavesTracker ==
    [][(Accumulates /\ IsDateOk(data') /\ OutOfCalendar(Numbers(data'))) =>
          LET n == Numbers(data')
          IN  /\ datetime_invalid' =
                     Append(datetime_invalid,
                            <<records, n.year, n.month, n.day, n.hour,
                              n.minute, n.seconds>>)
              /\ dt_last' = dt_last
              /\ datetime_out_sequence' = datetime_out_sequence]_vars

\* 16:30:06 was accepted, a frame of month 13 rejected as record 1, and the
\* frame of 16:29:06 that followed was compared with 16:30:06 and logged
C15_Witness ==
    /\ mode = "file"
    /\ records = 3
    /\ datetime_invalid = <<<<1, 21, 13, 1, 16, 30, 6>>>>
    /\ datetime_out_sequence = <<<<2, 21, 6, 1, 16, 29, 6>>>>
    /\ dt_last = <<2021, 6, 1, 16, 29, 6>>

\* the record has the word w and did not reach ok
IsErrorOf(d, w) == has_key(d, "word") /\ d.word = w /\ d.status # "ok"

\* C16: update_error_counter appends the entry (records processed before,
\* stripped line, status) to datetime_errors exactly for a word 00 record that
\* is not ok (not-read, nack-stop) and to halttime_errors exactly for a word
\* 0C record that is not ok (not-read, nack-stop, halt).
C16_ErrorLogs ==
    [][Accumulates =>
          LET d     == data'
              entry == <<nread - 1, strip(line), d.status>>
          IN  /\ datetime_errors' =
                     (IF IsErrorOf(d, "00")
                      THEN Append(datetime_errors, entry)
                      ELSE datetime_errors)
              /\ halttime_errors' =
                     (IF IsErrorOf(d, "0C")
                      THEN Append(halttime_errors, entry)
                      ELSE halttime_errors)
              /\ IsErrorOf(d, "00") => d.status \in {"not-read", "nack-stop"}
              /\ IsErrorOf(d, "0C") =>
                     d.status \in {"not-read", "nack-stop", "halt"}]_vars

\* an ok record, a truncated date/time frame and a halted alarm frame were
\* processed: one entry in each log, with the indices 1 and 2
C16_Witness ==
    /\ mode = "file"
    /\ records = 3
    /\ Len(datetime_errors) = 1
    /\ datetime_errors[1][1] = 1
    /\ datetime_errors[1][3] = "nack-stop"
    /\ Len(halttime_errors) = 1
    /\ halttime_errors[1][1] = 2
    /\ halttime_errors[1][3] = "halt"

\* C17: the two error logs together never hold more entries than records
\* counts.
C17_ErrorsBoundedByRecords ==
    Len(datetime_errors) + Len(halttime_errors) <= records

\* three records, each of them logged
C17_Witness ==
    /\ records = 3
    /\ Len(datetime_errors) + Len(halttime_errors) = 3
    /\ datetime_errors # <<>>
    /\ halttime_errors # <<>>

\* C18: a record of status empty or device-unknown changes records only;
\* dt_last, datetime_invalid and datetime_out_sequence change only for a
\* word 00 record of status ok.
C18_OnlyDateOkMovesTracker ==
    [][Accumulates =>
          /\ data'.status \in {"empty", "device unknow"} =>
                 /\ records' = records + 1
                 /\ UNCHANGED <<datetime_errors, halttime_errors, dt_last,
                                datetime_invalid, datetime_out_sequence,
                                json_file, raw_file, console>>
          /\ ~IsDateOk(data') =>
                 UNCHANGED <<dt_last, datetime_invalid,
                             datetime_out_sequence>>]_vars

\* with an output file, a date/time frame was accepted and persisted, and the
\* frame of another device after it was counted and left everything else
C18_Witness ==
    /\ mode = "file"
    /\ output
    /\ pc = "loop"
    /\ records = 2
    /\ data.status = "device unknow"
    /\ dt_last = <<2021, 6, 1, 16, 30, 6>>
    /\ Len(json_file) = 1
    /\ Len(console) = 1

\* C19: in the file batch and in the serial session alike, the record of
\* every line received goes through update_error_counter once: the step that
\* handles the line leaves the RunState update_error_counter computes from it,
\* with records one higher.  (Stated for the records that have a word or need
\* none; a word-unknown record ends the run in either mode, which is C8.)
C19_EveryRecordAccumulated ==
    [][(pc = "body" /\ data'.status # "word unknow") =>
          LET up == update_error_counter(data', line, RunState)
          IN  /\ up.exc = "none"
              /\ records' = records + 1
              /\ datetime_errors' = up.datetime_errors
              /\ halttime_errors' = up.halttime_errors
              /\ dt_last' = up.dt_last
              /\ datetime_invalid' = up.datetime_invalid
              /\ datetime_out_sequence' = up.datetime_out_sequence]_vars

\* the summary of the RunState is on the console
Reported ==
    \E i \in 1..Len(console) : console[i].kind = "summary"

\* C20: when readline raises serial.SerialException the serial session ends
\* and the RunState is reported.  (pyserial has no end-of-stream signal of its
\* own: at the end of the stream readline returns b"" )
C20_SerialSessionEnds ==
    [][(/\ mode = "serial"
        /\ pc = "loop"
        /\ console' = Append(console,
                             Printed("error", "error reading serial port"))) =>
          (pc' = "done" /\ Reported')]_vars

====
